---------------------------- MODULE Spec2Model ----------------------------
(***************************************************************************)
(* Model of src/game/vmap/ModelInstance.cpp (VMAP::ModelInstance and       *)
(* VMAP::ModelSpawn): the four query operations of a placed model and the  *)
(* binary record codec of its placement data.                              *)
(*                                                                         *)
(* Numbers of type float are IEEE-754 binary32 values, represented as      *)
(* [s, m, e] with value (-1)^s * m * 2^e and m normalised to 24 bits;      *)
(* every arithmetic operation rounds to nearest, ties to even, as the      *)
(* hardware does.  Objects that fread/fwrite touch are represented by      *)
(* their bytes in memory (little-endian).                                  *)
(***************************************************************************)
EXTENDS Integers, Sequences, FiniteSets, TLC

(***************************************************************************)
(* binary32 arithmetic                                                     *)
(***************************************************************************)
FLT_MANT_DIG == 24

RECURSIVE Pow2(_)
Pow2(n) == IF n <= 0 THEN 1 ELSE 2 * Pow2(n - 1)

MantMin == Pow2(FLT_MANT_DIG - 1)
MantLim == Pow2(FLT_MANT_DIG)

RECURSIVE BitLen(_)
BitLen(n) == IF n = 0 THEN 0 ELSE 1 + BitLen(n \div 2)

FZero == [s |-> 0, m |-> 0, e |-> 0]
FInf  == [s |-> 0, m |-> 0, e |-> 1]
FNegInf == [s |-> 1, m |-> 0, e |-> 1]

IsInf(x)  == x.m = 0 /\ x.e = 1
IsZero(x) == x.m = 0 /\ x.e = 0

\* Round the exact-or-sticky integer M * 2^e to 24 significant bits, to
\* nearest, ties to even.  A set lowest bit of M may stand for any non-zero
\* tail below it, provided at least two bits are dropped.
RECURSIVE RoundNorm(_, _, _)
RoundNorm(s, M, e) ==
    IF M = 0 THEN FZero
    ELSE IF M < MantMin THEN RoundNorm(s, 2 * M, e - 1)
    ELSE IF M < MantLim THEN [s |-> s, m |-> M, e |-> e]
    ELSE LET k    == BitLen(M \div MantLim)
             q    == M \div Pow2(k)
             r    == M % Pow2(k)
             half == Pow2(k - 1)
             up   == r > half \/ (r = half /\ q % 2 = 1)
             q2   == IF up THEN q + 1 ELSE q
         IN  IF q2 = MantLim THEN [s |-> s, m |-> MantMin, e |-> e + k + 1]
             ELSE [s |-> s, m |-> q2, e |-> e + k]

Sticky(M, lost) == IF lost /\ M % 2 = 0 THEN M + 1 ELSE M

FromInt(n) == IF n < 0 THEN RoundNorm(1, -n, 0) ELSE RoundNorm(0, n, 0)

FNeg(x) == IF IsZero(x) THEN x ELSE [x EXCEPT !.s = 1 - x.s]

\* x * y for finite x, y: the 48-bit product of the mantissas is formed from
\* 12-bit halves and rounded once.
FMul(x, y) ==
    IF IsZero(x) \/ IsZero(y) THEN FZero
    ELSE IF x.m = MantMin      \* a power of two scales exactly
    THEN [s |-> (x.s + y.s) % 2, m |-> y.m, e |-> x.e + y.e + FLT_MANT_DIG - 1]
    ELSE LET a1  == x.m \div 4096
             a0  == x.m % 4096
             b1  == y.m \div 4096
             b0  == y.m % 4096
             p00 == a0 * b0
             p01 == a0 * b1 + a1 * b0
             p11 == a1 * b1
             low == p00 + (p01 % 4096) * 4096
             lo  == low % MantLim
             hi  == p11 + (p01 \div 4096) + (low \div MantLim)
             M   == hi * 16 + (lo \div 1048576)
         IN  RoundNorm((x.s + y.s) % 2, Sticky(M, lo % 1048576 # 0),
                       x.e + y.e + 20)

\* floor(r * 2^n / d) and whether a remainder is left, by long division
RECURSIVE LongDiv(_, _, _, _)
LongDiv(q, r, d, n) ==
    IF n = 0 THEN <<q, r # 0>>
    ELSE IF 2 * r >= d THEN LongDiv(2 * q + 1, 2 * r - d, d, n - 1)
         ELSE LongDiv(2 * q, 2 * r, d, n - 1)

\* x / y for finite x and finite non-zero y
FDiv(x, y) ==
    IF IsZero(x) THEN FZero
    ELSE LET qr == LongDiv(x.m \div y.m, x.m % y.m, y.m, 27)
         IN  RoundNorm((x.s + y.s) % 2, Sticky(qr[1], qr[2]), x.e - y.e - 27)

\* x + y for finite x, y
FAdd(x, y) ==
    IF IsZero(x) THEN y
    ELSE IF IsZero(y) THEN x
    ELSE LET xBig == x.e > y.e \/ (x.e = y.e /\ x.m >= y.m)
             b    == IF xBig THEN x ELSE y
             c    == IF xBig THEN y ELSE x
             d    == b.e - c.e
         IN  IF d > 27 THEN b
             ELSE LET A == b.m * 8
                      B == Sticky((c.m * 8) \div Pow2(d), (c.m * 8) % Pow2(d) # 0)
                  IN  IF b.s = c.s THEN RoundNorm(b.s, A + B, b.e - 3)
                      ELSE RoundNorm(b.s, A - B, b.e - 3)

FSub(x, y) == FAdd(x, FNeg(y))

\* x < y, for finite or infinite operands
FLess(x, y) ==
    LET MagLess(a, b) ==      \* |a| < |b|
            IF IsInf(a) THEN FALSE
            ELSE IF IsInf(b) THEN TRUE
            ELSE IF IsZero(b) THEN FALSE
            ELSE IF IsZero(a) THEN TRUE
            ELSE a.e < b.e \/ (a.e = b.e /\ a.m < b.m)
    IN  IF x = y THEN FALSE
        ELSE IF x.s = 0 /\ y.s = 0 THEN MagLess(x, y)
        ELSE IF x.s = 1 /\ y.s = 1 THEN MagLess(y, x)
        ELSE x.s = 1

FLeq(x, y) == x = y \/ FLess(x, y)


(***************************************************************************)
(* G3D::Vector3 and G3D::Matrix3 over binary32                             *)
(***************************************************************************)
VSub(a, b) == <<FSub(a[1], b[1]), FSub(a[2], b[2]), FSub(a[3], b[3])>>
VAdd(a, b) == <<FAdd(a[1], b[1]), FAdd(a[2], b[2]), FAdd(a[3], b[3])>>
VScale(v, f) == <<FMul(v[1], f), FMul(v[2], f), FMul(v[3], f)>>

\* Matrix3 * Vector3 (column vector)
MatVec(M, v) ==
    [r \in 1..3 |-> FAdd(FAdd(FMul(M[r][1], v[1]), FMul(M[r][2], v[2])),
                         FMul(M[r][3], v[3]))]

\* Vector3 * Matrix3 (row vector), i.e. Matrix3.transpose() * Vector3
VecMat(v, M) ==
    [c \in 1..3 |-> FAdd(FAdd(FMul(v[1], M[1][c]), FMul(v[2], M[2][c])),
                         FMul(v[3], M[3][c]))]

\* AABox::contains(point)
BoxContains(box, q) ==
    \A k \in 1..3 : FLeq(box.lo[k], q[k]) /\ FLeq(q[k], box.hi[k])

IVec(x, y, z) == <<FromInt(x), FromInt(y), FromInt(z)>>
FOne == FromInt(1)
Identity3 == << <<FOne, FZero, FZero>>, <<FZero, FOne, FZero>>, <<FZero, FZero, FOne>> >>

(***************************************************************************)
(* ModelSpawn flags                                                        *)
(***************************************************************************)
MOD_M2 == 1
MOD_HAS_BOUND == 4

\* flags & bit, for a flags word given as a number
HasFlag(flags, bit) == (flags \div bit) % 2 = 1

(***************************************************************************)
(* ModelInstance::ModelInstance                                            *)
(***************************************************************************)
NoModel == 0

\* The placements the instances are built from.  iRot is (0, 0, 0)
\* throughout, for which fromEulerAnglesZYX(...).inverse() is exactly the
\* identity; the scale is never zero.
Spawns ==
    << [flags |-> MOD_HAS_BOUND, adtId |-> 10, iPos |-> IVec(0, 0, 0),
        iScale |-> FromInt(1),
        iBound |-> [lo |-> IVec(-8, -8, -8), hi |-> IVec(8, 8, 8)], model |-> 101],
       [flags |-> MOD_HAS_BOUND, adtId |-> 20, iPos |-> IVec(1, 0, 2),
        iScale |-> FromInt(3),
        iBound |-> [lo |-> IVec(-8, -8, -8), hi |-> IVec(8, 8, 8)], model |-> 102],
       [flags |-> MOD_HAS_BOUND, adtId |-> 30, iPos |-> IVec(0, 0, 1),
        iScale |-> FromInt(2),
        iBound |-> [lo |-> IVec(-8, -8, -8), hi |-> IVec(8, 8, 8)], model |-> NoModel],
       [flags |-> MOD_M2, adtId |-> 40, iPos |-> IVec(0, 1, 0),
        iScale |-> FromInt(1),
        iBound |-> [lo |-> IVec(-8, -8, -8), hi |-> IVec(8, 8, 8)], model |-> 104],
       [flags |-> MOD_HAS_BOUND, adtId |-> 50, iPos |-> IVec(5, 5, 4),
        iScale |-> FromInt(1),
        iBound |-> [lo |-> IVec(4, 4, 4), hi |-> IVec(6, 6, 6)], model |-> 105] >>

ModelInstance(spawn, model) ==
    [flags |-> spawn.flags, adtId |-> spawn.adtId, iPos |-> spawn.iPos,
     iScale |-> spawn.iScale, iBound |-> spawn.iBound,
     iModel |-> model,
     iInvRot |-> Identity3,
     iInvScale |-> FDiv(FOne, spawn.iScale)]

InstIds == DOMAIN Spawns


(***************************************************************************)
(* The mesh collaborator (WorldModel, GroupModel) and Ray/AABox            *)
(* intersection: opaque, every answer they may give is a possible outcome. *)
(***************************************************************************)
NoGroup == 0

\* world-space points the callers ask about
Points == {IVec(0, 0, 0), IVec(5, 5, 5)}

\* object-space distances at which the mesh may find a triangle
MeshDists == {FromInt(1), FromInt(2)}

\* distances along the probe direction at which the mesh may find ground
ZDists == {FromInt(1), FromInt(3)}

\* Ray::intersectionTime(iBound): a finite entry time, or inf on a miss
Times == {FInf, FOne}

\* WorldModel::IntersectRay: on a hit the distance is left or lowered,
\* never raised
MeshIntersectRay(model, modRay, distance, stop, ignoreM2) ==
    {[hit |-> FALSE, distance |-> distance]} \cup
    {[hit |-> TRUE, distance |-> d] :
        d \in {distance} \cup {x \in MeshDists : FLess(x, distance)}}

\* WorldModel::IntersectPoint: whether ground was found below, and how far
MeshIntersectPoint(model, pModel, zDirModel) ==
    {[hit |-> FALSE, zDist |-> FZero]} \cup
    {[hit |-> TRUE, zDist |-> z] : z \in ZDists}

\* the groups of a model and its root id
GroupsOf(model) == {10 * model + 1}
RootIdOf(model) == 1000 + model

\* GroupLocationInfo(): what the callee starts from
NoGroupInfo == [rootId |-> -1, hitModel |-> NoGroup]

\* WorldModel::GetLocationInfo: as IntersectPoint, plus the group hit
MeshGetLocationInfo(model, pModel, zDirModel) ==
    {[hit |-> FALSE, zDist |-> FZero, groupInfo |-> NoGroupInfo]} \cup
    {[hit |-> TRUE, zDist |-> z,
      groupInfo |-> [rootId |-> RootIdOf(model), hitModel |-> g]] :
        z \in ZDists, g \in GroupsOf(model)}

\* GroupModel::GetLiquidLevel: whether the group has liquid there, its level
GroupGetLiquidLevel(group, pModel) ==
    {[hit |-> FALSE, zDist |-> FZero], [hit |-> TRUE, zDist |-> FromInt(2)]}

(***************************************************************************)
(* State of the callers of the query operations                            *)
(***************************************************************************)
VARIABLES
    instances,  \* the ModelInstance objects of the index, as constructed
    query,      \* what the caller is asking of the instances it visits
    p,          \* the world-space query point of the caller
    maxDist,    \* float& pMaxDist of the caller of intersectRay
    areaInfo,   \* AreaInfo& of the caller of intersectPoint
    locInfo,    \* LocationInfo& of the caller of GetLocationInfo
    liqHeight,  \* float& liqHeight of the caller of GetLiquidLevel
    last,       \* the last call: operation, instance, result, what it saw
    cands,      \* <<world_Z, adtId>> of every mesh hit seen by intersectPoint
    areaInit,   \* areaInfo before the first call
    calls,      \* number of calls made
    crashed     \* a null pointer was dereferenced

qvars == <<instances, query, p, maxDist, areaInfo, locInfo, liqHeight, last, cands, areaInit,
           calls, crashed>>

\* the state of the record codec: a file, its writer and its reader
VARIABLES
    file,      \* the bytes of the file
    cap,       \* the bytes the device has room for
    failAt,    \* the offset at which reading the device fails, if any
    rerr,      \* the error indicator of the reader's stream: ferror(rf)
    rpos,      \* the offset of the reader's stream
    spawn,     \* the reader's ModelSpawn, handed to every readFromFile
    wrote,     \* the records writeToFile reported written, with their extent
    writes,    \* number of writeToFile calls
    wr,        \* the last writeToFile call
    rd         \* the last readFromFile call

cvars == <<file, cap, failAt, rerr, rpos, spawn, wrote, writes, wr, rd>>

MaxCalls == 3

Directions == {IVec(1, 0, 0)}
InitDists == {FromInt(7), FromInt(10)}
InitAreas == {[ground_Z |-> FNegInf, adtId |-> -1],
              [ground_Z |-> FromInt(2), adtId |-> 7]}

Outputs == [maxDist |-> maxDist, areaInfo |-> areaInfo, locInfo |-> locInfo,
            liqHeight |-> liqHeight]

NoCall == [op |-> "none", inst |-> 0, ret |-> FALSE, mesh |-> FALSE,
           hit |-> FALSE, world |-> FZero, time |-> FZero, inside |-> FALSE,
           groupInfo |-> NoGroupInfo, nullDeref |-> FALSE, pre |-> <<>>]

\* The caller runs one kind of query over the instances its index selects: a
\* ray cast, an area lookup, or a location lookup with its liquid follow-up.
Queries == {"ray", "area", "location"}

Inst(i) == instances[i]

InitQ ==
    /\ instances = [i \in InstIds |-> ModelInstance(Spawns[i], Spawns[i].model)]
    /\ query \in Queries
    /\ p \in Points
    /\ maxDist \in InitDists
    /\ areaInfo \in InitAreas
    /\ areaInit = areaInfo
    /\ locInfo = [hitInstance |-> 0, hitModel |-> NoGroup, rootId |-> -1,
                  ground_Z |-> FNegInf]
    /\ liqHeight = FZero
    /\ last = NoCall
    /\ cands = <<>>
    /\ calls = 0
    /\ crashed = FALSE

(***************************************************************************)
(* The object-space transform shared by the queries                        *)
(***************************************************************************)
\* iInvRot * (q - iPos) * iInvScale
ToModel(inst, q) == VScale(MatVec(inst.iInvRot, VSub(q, inst.iPos)), inst.iInvScale)

\* iInvRot * Vector3(0, 0, -1)
ZDirModel(inst) == MatVec(inst.iInvRot, IVec(0, 0, -1))

\* ((v * iInvRot) * iScale + iPos).z
WorldZ(inst, v) == VAdd(VScale(VecMat(v, inst.iInvRot), inst.iScale), inst.iPos)[3]

\* world height of the ground found zDist below pModel
GroundZ(inst, pModel, zDist) ==
    WorldZ(inst, VAdd(pModel, VScale(ZDirModel(inst), zDist)))


(***************************************************************************)
(* ModelInstance::intersectRay                                             *)
(***************************************************************************)
\* the entry-time test left out
RayMissesNever(time) == FALSE

\* time == G3D::inf()
RayMisses(time) == time = FInf

Called(op, i) == [NoCall EXCEPT !.op = op, !.inst = i, !.pre = Outputs]

IntersectRay(i, ray, time, stop, ignoreM2) ==
    /\ query = "ray"
    /\ ~crashed
    /\ calls < MaxCalls
    /\ LET inst == Inst(i)
           call == [Called("intersectRay", i) EXCEPT !.time = time]
       IN  IF inst.iModel = NoModel \/ RayMisses(time)
           THEN /\ maxDist' = maxDist
                /\ last' = call
           ELSE LET modRay == [origin |-> ToModel(inst, ray.origin),
                               direction |-> MatVec(inst.iInvRot, ray.direction)]
                    distance == FMul(maxDist, inst.iInvScale)
                IN  \E out \in MeshIntersectRay(inst.iModel, modRay, distance,
                                                stop, ignoreM2) :
                        /\ maxDist' = IF out.hit
                                      THEN FMul(out.distance, inst.iScale)
                                      ELSE maxDist
                        /\ last' = [call EXCEPT !.mesh = TRUE, !.hit = out.hit,
                                                !.ret = out.hit]
    /\ calls' = calls + 1
    /\ UNCHANGED <<instances, query, p, areaInfo, locInfo, liqHeight, cands, areaInit, crashed>>
    /\ UNCHANGED cvars

(***************************************************************************)
(* ModelInstance::intersectPoint                                           *)
(***************************************************************************)
\* (flags & MOD_M2) or !iBound.contains(p): no mesh work for this point
PointSkipped(inst, q) ==
    HasFlag(inst.flags, MOD_M2) \/ ~BoxContains(inst.iBound, q)

\* the comparison written as <=
AreaAcceptsEqual(ground_Z, world_Z) == FLeq(ground_Z, world_Z)

\* info.ground_Z < world_Z
AreaAccepts(ground_Z, world_Z) == FLess(ground_Z, world_Z)

\* the tile id stored on every mesh hit, the height only under the comparison
AreaUpdateTileAlways(info, inst, world_Z) ==
    IF AreaAccepts(info.ground_Z, world_Z)
    THEN [info EXCEPT !.ground_Z = world_Z, !.adtId = inst.adtId]
    ELSE [info EXCEPT !.adtId = inst.adtId]

\* what a mesh hit at world_Z makes of the caller's AreaInfo
AreaUpdate(info, inst, world_Z) ==
    IF AreaAccepts(info.ground_Z, world_Z)
    THEN [info EXCEPT !.ground_Z = world_Z, !.adtId = inst.adtId]
    ELSE info

IntersectPoint(i) ==
    /\ query = "area"
    /\ ~crashed
    /\ calls < MaxCalls
    /\ LET inst == Inst(i)
           call == [Called("intersectPoint", i) EXCEPT
                        !.inside = BoxContains(inst.iBound, p)]
       IN  IF inst.iModel = NoModel \/ PointSkipped(inst, p)
           THEN /\ areaInfo' = areaInfo
                /\ cands' = cands
                /\ last' = call
           ELSE LET pModel == ToModel(inst, p)
                IN  \E out \in MeshIntersectPoint(inst.iModel, pModel, ZDirModel(inst)) :
                        LET world_Z == IF out.hit THEN GroundZ(inst, pModel, out.zDist)
                                       ELSE FZero
                        IN  /\ areaInfo' = IF out.hit
                                           THEN AreaUpdate(areaInfo, inst, world_Z)
                                           ELSE areaInfo
                            /\ cands' = IF out.hit
                                        THEN Append(cands, <<world_Z, inst.adtId>>)
                                        ELSE cands
                            /\ last' = [call EXCEPT
                                           !.mesh = TRUE, !.hit = out.hit,
                                           !.world = world_Z]
    /\ calls' = calls + 1
    /\ UNCHANGED <<instances, query, p, maxDist, locInfo, liqHeight, areaInit, crashed>>
    /\ UNCHANGED cvars

(***************************************************************************)
(* ModelInstance::GetLocationInfo                                          *)
(***************************************************************************)
\* the comparison written as <=
LocAcceptsEqual(ground_Z, world_Z) == FLeq(ground_Z, world_Z)

\* info.ground_Z < world_Z
LocAccepts(ground_Z, world_Z) == FLess(ground_Z, world_Z)

\* the return value and the caller's LocationInfo after a mesh hit at world_Z
LocUpdate(info, i, groupInfo, world_Z) ==
    IF LocAccepts(info.ground_Z, world_Z)
    THEN [ret |-> TRUE,
          info |-> [rootId |-> groupInfo.rootId, hitModel |-> groupInfo.hitModel,
                    ground_Z |-> world_Z, hitInstance |-> i]]
    ELSE [ret |-> FALSE, info |-> info]

GetLocationInfo(i) ==
    /\ query = "location"
    /\ ~crashed
    /\ calls < MaxCalls
    /\ LET inst == Inst(i)
           call == [Called("GetLocationInfo", i) EXCEPT
                        !.inside = BoxContains(inst.iBound, p)]
       IN  IF inst.iModel = NoModel \/ PointSkipped(inst, p)
           THEN /\ locInfo' = locInfo
                /\ last' = call
           ELSE LET pModel == ToModel(inst, p)
                IN  \E out \in MeshGetLocationInfo(inst.iModel, pModel, ZDirModel(inst)) :
                        LET world_Z == IF out.hit THEN GroundZ(inst, pModel, out.zDist)
                                       ELSE FZero
                            res == IF out.hit
                                   THEN LocUpdate(locInfo, i, out.groupInfo, world_Z)
                                   ELSE [ret |-> FALSE, info |-> locInfo]
                        IN  /\ locInfo' = res.info
                            /\ last' = [call EXCEPT
                                           !.mesh = TRUE, !.hit = out.hit,
                                           !.ret = res.ret,
                                           !.groupInfo = out.groupInfo,
                                           !.world = world_Z]
    /\ calls' = calls + 1
    /\ UNCHANGED <<instances, query, p, maxDist, areaInfo, liqHeight, cands, areaInit, crashed>>
    /\ UNCHANGED cvars

(***************************************************************************)
(* ModelInstance::GetLiquidLevel                                           *)
(***************************************************************************)
GetLiquidLevel(i) ==
    /\ query = "location"
    /\ ~crashed
    /\ calls < MaxCalls
    /\ LET inst == Inst(i)
           pModel == ToModel(inst, p)
           call == [Called("GetLiquidLevel", i) EXCEPT
                        !.mesh = TRUE, !.nullDeref = (locInfo.hitModel = NoGroup)]
       IN  \* info.hitModel->GetLiquidLevel on a null hitModel is undefined:
           \* the call faults, or answers from whatever it reads
           \/ /\ locInfo.hitModel = NoGroup
              /\ crashed' = TRUE
              /\ liqHeight' = liqHeight
              /\ last' = call
           \/ /\ crashed' = FALSE
              /\ \E out \in GroupGetLiquidLevel(locInfo.hitModel, pModel) :
                    /\ liqHeight' = IF out.hit
                                    THEN WorldZ(inst, <<pModel[1], pModel[2], out.zDist>>)
                                    ELSE liqHeight
                    /\ last' = [call EXCEPT !.hit = out.hit, !.ret = out.hit]
    /\ calls' = calls + 1
    /\ UNCHANGED <<instances, query, p, maxDist, areaInfo, locInfo, cands, areaInit>>
    /\ UNCHANGED cvars


(***************************************************************************)
(* Byte streams: FILE* with fread and fwrite                               *)
(***************************************************************************)
Min(a, b) == IF a < b THEN a ELSE b
Max(a, b) == IF a < b THEN b ELSE a

\* object representations, little-endian
U16LE(n) == <<n % 256, (n \div 256) % 256>>
U32LE(n) == <<n % 256, (n \div 256) % 256, (n \div 65536) % 256, n \div 16777216>>
F32LE(x) ==
    IF IsZero(x) THEN <<0, 0, 0, 0>>
    ELSE LET ex == x.e + 150
             fr == x.m - MantMin
         IN  <<fr % 256, (fr \div 256) % 256, (fr \div 65536) + 128 * (ex % 2),
               (ex \div 2) + 128 * x.s>>
Vec3LE(v) == F32LE(v[1]) \o F32LE(v[2]) \o F32LE(v[3])

\* the value of a uint32 object compared with a small number: v > n
U32Greater(b, n) == b[4] # 0 \/ b[1] + 256 * b[2] + 65536 * b[3] > n
\* the value of a uint32 object known to be small
U32Small(b) == b[1] + 256 * b[2] + 65536 * b[3]

\* flags & bit, on the object representation of a uint32 (bit < 256)
HasFlagLE(b, bit) == HasFlag(b[1], bit)

\* memory after a read of `bytes` into an object holding `old`
Store(old, bytes) == bytes \o SubSeq(old, Len(bytes) + 1, Len(old))

\* fread(ptr, size, n, rf) on stream st = [data, pos, failAt, err]: the items
\* read in full, the bytes delivered, and the stream afterwards.  The stream
\* ends at the end of its data, or fails where the device fails.
Fread(st, size, n) ==
    LET limit == IF st.err THEN st.pos ELSE Min(Len(st.data), st.failAt)
        got   == Min(size * n, Max(limit - st.pos, 0))
    IN  [items |-> got \div size,
         bytes |-> SubSeq(st.data, st.pos + 1, st.pos + got),
         st    |-> [st EXCEPT !.pos = st.pos + got,
                              !.err = st.err \/ (got < size * n /\ st.failAt < Len(st.data))]]

\* fwrite(ptr, size, n, wf) on a device with room for cap bytes in all
Fwrite(out, bytes, size, n) ==
    LET put == Min(size * n, Max(out.cap - Len(out.data), 0))
    IN  [items |-> put \div size,
         out   |-> [out EXCEPT !.data = out.data \o SubSeq(bytes, 1, put)]]

(***************************************************************************)
(* ModelSpawn::readFromFile                                                *)
(***************************************************************************)
NameBuffSize == 500

\* the count compared with 11 whether or not the bound block is present
FieldCountIgnoringBound(check, has_bound) == check # 11

\* check != uint32(has_bound ? 17 : 11)
FieldCountWrong(check, has_bound) == check # (IF has_bound THEN 17 ELSE 11)

\* the limit written as >= 500
NameTooLongAtLimit(nameLen) == U32Greater(nameLen, NameBuffSize - 1)

\* nameLen > 500
NameTooLong(nameLen) == U32Greater(nameLen, NameBuffSize)

\* the diagnostic emitted without asking ferror(rf)
EofLogAlways(err) == "error"

\* the diagnostic of a first read of zero items: an error only if ferror(rf)
EofLog(err) == IF err THEN "error" ELSE "none"

\* Vector3(): all components zero
ZeroVec3LE == Vec3LE(<<FZero, FZero, FZero>>)

(***************************************************************************)
(* A writer appending records to a file and a reader decoding it           *)
(***************************************************************************)
MaxRecords == 2
MaxCap == 72

\* no limit that the model can reach
Unlimited == (MaxRecords + 1) * (2 * NameBuffSize)

Name(n, c) == [k \in 1..n |-> c + (k % 7)]

MkSpawn(flags, adtId, id, pos, rot, scale, lo, hi, name) ==
    [flags |-> U32LE(flags), adtId |-> U16LE(adtId), ID |-> U32LE(id),
     iPos |-> Vec3LE(pos), iRot |-> Vec3LE(rot), iScale |-> F32LE(scale),
     iBound |-> [lo |-> Vec3LE(lo), hi |-> Vec3LE(hi)], name |-> name]

\* the records the writer is given
Records ==
    { MkSpawn(MOD_M2, 513, 70000, IVec(1, -2, 3), IVec(0, 90, 0), FromInt(1),
              IVec(0, 0, 0), IVec(0, 0, 0), Name(2, 97)),
      MkSpawn(MOD_HAS_BOUND, 10, 258, IVec(-5, 6, 7), IVec(45, 0, 0), FromInt(3),
              IVec(-8, -8, -8), IVec(8, 8, 8), Name(3, 65)),
      MkSpawn(MOD_HAS_BOUND, 20, 3, IVec(9, 9, 9), IVec(0, 0, 180), FromInt(2),
              IVec(4, 4, 4), IVec(6, 6, 6), Name(NameBuffSize, 48)),
      MkSpawn(MOD_M2, 30, 4, IVec(2, 2, 2), IVec(0, 0, 0), FromInt(5),
              IVec(0, 0, 0), IVec(0, 0, 0), Name(NameBuffSize + 1, 100)) }

\* the reader's record before its first read
FreshSpawn ==
    MkSpawn(0, 65535, 16909060, IVec(11, 12, 13), IVec(14, 15, 16), FromInt(17),
            IVec(-1, -1, -1), IVec(1, 1, 1), Name(1, 33))

NoRead == [called |-> FALSE, start |-> 0, written |-> 0, ret |-> FALSE, log |-> "none",
           first |-> 0, check |-> 0, nameLen |-> U32LE(0), nameReq |-> -1,
           nameGot |-> -1, ferr |-> FALSE, pre |-> FreshSpawn]

InitC ==
    /\ file = <<>>
    /\ cap \in (0..MaxCap) \cup {Unlimited}
    /\ failAt \in {3, 30, Unlimited}
    /\ rerr = FALSE
    /\ rpos = 0
    /\ spawn = FreshSpawn
    /\ wrote = <<>>
    /\ writes = 0
    /\ wr = [called |-> FALSE, ret |-> FALSE]
    /\ rd = NoRead

\* the record writeToFile reported written at this offset, if any
WrittenAt(pos) ==
    IF \E k \in DOMAIN wrote : wrote[k].start = pos
    THEN CHOOSE k \in DOMAIN wrote : wrote[k].start = pos
    ELSE 0

(***************************************************************************)
(* ModelSpawn::writeToFile, appending spawn to the file.  Each fwrite is   *)
(* bound in turn to its result (items written, stream afterwards).         *)
(***************************************************************************)
WriteReturns(ret, out, rec) ==
    /\ file' = out.data
    /\ wr' = [called |-> TRUE, ret |-> ret]
    /\ wrote' = IF ret
                THEN Append(wrote, [rec |-> rec, start |-> Len(file),
                                    end |-> Len(out.data)])
                ELSE wrote
    /\ writes' = writes + 1
    /\ UNCHANGED <<cap, failAt, rerr, rpos, spawn, rd>>
    /\ UNCHANGED qvars

WriteToFile(rec) ==
    /\ writes < MaxRecords
    /\ \E w1 \in {Fwrite([data |-> file, cap |-> cap], rec.flags, 4, 1)} :
       \E w2 \in {Fwrite(w1.out, rec.adtId, 2, 1)} :
       \E w3 \in {Fwrite(w2.out, rec.ID, 4, 1)} :
       \E w4 \in {Fwrite(w3.out, rec.iPos, 4, 3)} :
       \E w5 \in {Fwrite(w4.out, rec.iRot, 4, 3)} :
       \E w6 \in {Fwrite(w5.out, rec.iScale, 4, 1)} :
       \E has_bound \in {HasFlagLE(rec.flags, MOD_HAS_BOUND)} :
       \E w7 \in {IF has_bound THEN Fwrite(w6.out, rec.iBound.lo, 4, 3)
                  ELSE [items |-> 0, out |-> w6.out]} :
       \E w8 \in {IF has_bound THEN Fwrite(w7.out, rec.iBound.hi, 4, 3)
                  ELSE [items |-> 0, out |-> w7.out]} :
       \E nameLen \in {Len(rec.name)} :
       \E w9 \in {Fwrite(w8.out, U32LE(nameLen), 4, 1)} :
       \E check \in {w1.items + w2.items + w3.items + w4.items + w5.items
                     + w6.items + w7.items + w8.items + w9.items} :
          IF FieldCountWrong(check, has_bound)
          THEN WriteReturns(FALSE, w9.out, rec)
          ELSE \E w10 \in {Fwrite(w9.out, rec.name, 1, nameLen)} :
                  WriteReturns(w10.items = nameLen, w10.out, rec)

(***************************************************************************)
(* ModelSpawn::readFromFile, decoding into the reader's spawn.  Each fread *)
(* is bound in turn to its result (items read, bytes delivered, stream     *)
(* afterwards).                                                            *)
(***************************************************************************)
ReadReturns(ret, log, st, sp, first, check, nameLen, nameReq, nameGot) ==
    /\ rpos' = st.pos
    /\ rerr' = st.err
    /\ spawn' = sp
    /\ rd' = [called |-> TRUE, start |-> rpos, written |-> WrittenAt(rpos),
              ret |-> ret, log |-> log, first |-> first, check |-> check,
              nameLen |-> nameLen, nameReq |-> nameReq, nameGot |-> nameGot,
              ferr |-> st.err, pre |-> spawn]
    /\ UNCHANGED <<file, cap, failAt, wrote, writes, wr>>
    /\ UNCHANGED qvars

NoBytes == U32LE(0)

ReadFromFile ==
    \E r1 \in {Fread([data |-> file, pos |-> rpos, failAt |-> failAt,
                      err |-> rerr], 4, 1)} :
    \E sp1 \in {[spawn EXCEPT !.flags = Store(@, r1.bytes)]} :
       IF r1.items = 0
       THEN ReadReturns(FALSE, EofLog(r1.st.err), r1.st, sp1, 0, 0, NoBytes, -1, -1)
       ELSE
       \E r2 \in {Fread(r1.st, 2, 1)} :
       \E r3 \in {Fread(r2.st, 4, 1)} :
       \E r4 \in {Fread(r3.st, 4, 3)} :
       \E r5 \in {Fread(r4.st, 4, 3)} :
       \E r6 \in {Fread(r5.st, 4, 1)} :
       \E sp6 \in {[sp1 EXCEPT !.adtId = Store(@, r2.bytes),
                               !.ID = Store(@, r3.bytes),
                               !.iPos = Store(@, r4.bytes),
                               !.iRot = Store(@, r5.bytes),
                               !.iScale = Store(@, r6.bytes)]} :
       \E has_bound \in {HasFlagLE(sp6.flags, MOD_HAS_BOUND)} :
       \E r7 \in {IF has_bound THEN Fread(r6.st, 4, 3)
                  ELSE [items |-> 0, bytes |-> <<>>, st |-> r6.st]} :
       \E r8 \in {IF has_bound THEN Fread(r7.st, 4, 3)
                  ELSE [items |-> 0, bytes |-> <<>>, st |-> r7.st]} :
       \E sp8 \in {IF has_bound
                   THEN [sp6 EXCEPT !.iBound = [lo |-> Store(ZeroVec3LE, r7.bytes),
                                                hi |-> Store(ZeroVec3LE, r8.bytes)]]
                   ELSE sp6} :
       \E r9 \in {Fread(r8.st, 4, 1)} :
       \E nameLen \in {Store(NoBytes, r9.bytes)} :
       \E check \in {r1.items + r2.items + r3.items + r4.items + r5.items
                     + r6.items + r7.items + r8.items + r9.items} :
          IF FieldCountWrong(check, has_bound)
          THEN ReadReturns(FALSE, "error", r9.st, sp8, 1, check, nameLen, -1, -1)
          ELSE IF NameTooLong(nameLen)
          THEN ReadReturns(FALSE, "error", r9.st, sp8, 1, check, nameLen, -1, -1)
          ELSE
          \E n \in {U32Small(nameLen)} :
          \E r10 \in {Fread(r9.st, 1, n)} :
             IF r10.items # n
             THEN ReadReturns(FALSE, "error", r10.st, sp8, 1, check, nameLen,
                              n, r10.items)
             ELSE ReadReturns(TRUE, "none", r10.st,
                              [sp8 EXCEPT !.name = r10.bytes], 1, check, nameLen,
                              n, r10.items)


(***************************************************************************)
(* Specifications                                                          *)
(***************************************************************************)
vars == <<qvars, cvars>>

\* the queries, with an idle codec
Init == InitQ /\ InitC /\ cap = Unlimited /\ failAt = Unlimited
Next ==
    \/ \E i \in InstIds, dir \in Directions, time \in Times, stop \in BOOLEAN :
          IntersectRay(i, [origin |-> p, direction |-> dir], time, stop, ~stop)
    \/ \E i \in InstIds : IntersectPoint(i)
    \/ \E i \in InstIds : GetLocationInfo(i)
    \/ \E i \in InstIds : GetLiquidLevel(i)
Spec == Init /\ [][Next]_vars

\* the codec, with an idle caller
InitCodec == InitC /\ InitQ /\ query = "ray" /\ p = IVec(0, 0, 0)
                 /\ maxDist = FromInt(7) /\ areaInfo.adtId = 7
NextCodec ==
    \/ \E rec \in Records : WriteToFile(rec)
    \/ ReadFromFile
SpecCodec == InitCodec /\ [][NextCodec]_vars

(***************************************************************************)
(* Properties of the query operations                                      *)
(***************************************************************************)
Did(op) == last.op = op

\* C2: intersectRay never leaves the caller's distance bound larger than it
\* was: on a hit the bound written out is at most the bound passed in, and
\* without a hit the bound is unchanged.
RayBoundNeverLoosened ==
    Did("intersectRay") =>
        /\ FLeq(maxDist, last.pre.maxDist)
        /\ ~last.ret => maxDist = last.pre.maxDist

\* C3: after any sequence of intersectPoint calls sharing one AreaInfo, the
\* recorded height is the maximum of the initial height and the heights of
\* all mesh hits, and the recorded tile id is that of the first instance
\* that produced the maximum (the initial tile id if no hit exceeded the
\* initial height).
TopmostSurfaceKept ==
    LET z == areaInfo.ground_Z
        hits == DOMAIN cands
    IN  query = "area" =>
            /\ z = areaInit.ground_Z \/ \E k \in hits : cands[k][1] = z
            /\ FLeq(areaInit.ground_Z, z)
            /\ \A k \in hits : FLeq(cands[k][1], z)
            /\ IF FLess(areaInit.ground_Z, z)
               THEN \E k \in hits :
                        /\ cands[k][1] = z
                        /\ \A j \in 1..(k - 1) : cands[j][1] # z
                        /\ areaInfo.adtId = cands[k][2]
               ELSE areaInfo.adtId = areaInit.adtId

\* two instances produced the same, highest, height; the first one is kept
TopmostTieKeepsFirst ==
    /\ query = "area"
    /\ \E j, k \in DOMAIN cands :
          /\ j < k
          /\ cands[j][1] = areaInfo.ground_Z
          /\ cands[k][1] = areaInfo.ground_Z
          /\ cands[j][2] # cands[k][2]
          /\ areaInfo.adtId = cands[j][2]
          /\ \A i \in 1..(j - 1) : cands[i][1] # areaInfo.ground_Z

\* C4: GetLocationInfo returns true exactly when the mesh reports ground
\* strictly above the recorded height, then records root id, group, height
\* and this instance together, and otherwise changes nothing; so the
\* recorded instance is always one that produces the recorded group and
\* height.
LocAccepted ==
    last.mesh /\ last.hit /\ FLess(last.pre.locInfo.ground_Z, last.world)

LocationGatedByHeight ==
    /\ Did("GetLocationInfo") =>
          /\ last.ret <=> LocAccepted
          /\ LocAccepted =>
                locInfo = [rootId |-> last.groupInfo.rootId,
                           hitModel |-> last.groupInfo.hitModel,
                           ground_Z |-> last.world,
                           hitInstance |-> last.inst]
          /\ ~LocAccepted => locInfo = last.pre.locInfo
    /\ locInfo.hitInstance # 0 =>
          /\ locInfo.hitModel \in GroupsOf(Inst(locInfo.hitInstance).iModel)
          /\ locInfo.rootId = RootIdOf(Inst(locInfo.hitInstance).iModel)
          /\ \E z \in ZDists :
                locInfo.ground_Z = GroundZ(Inst(locInfo.hitInstance),
                                           ToModel(Inst(locInfo.hitInstance), p), z)

\* a geometric hit at a height not above the recorded one was refused, with
\* another instance's result on record
LocationLowerHitRefused ==
    /\ Did("GetLocationInfo")
    /\ last.hit
    /\ ~last.ret
    /\ locInfo.hitInstance # 0
    /\ locInfo.hitInstance # last.inst

\* C6: for an instance without a mesh every query reports no hit, leaves the
\* caller's outputs unchanged and dereferences nothing that is absent.
NoMeshDegrades ==
    (last.op # "none" /\ Inst(last.inst).iModel = NoModel) =>
        /\ ~last.ret
        /\ ~last.mesh
        /\ ~last.nullDeref
        /\ ~crashed
        /\ Outputs = last.pre

\* C9: the mesh is not invoked by intersectRay when the entry time is
\* infinite, nor by intersectPoint and GetLocationInfo for a simple prop or a
\* point outside the bound; these calls report no hit and change nothing.
CheapReject ==
    \/ /\ Did("intersectRay")
       /\ last.time = FInf
    \/ /\ Did("intersectPoint") \/ Did("GetLocationInfo")
       /\ HasFlag(Inst(last.inst).flags, MOD_M2) \/ ~last.inside

CheapRejectBeforeMesh ==
    CheapReject => ~last.mesh /\ ~last.ret /\ Outputs = last.pre

\* a loaded instance was asked about a ray that misses its bound
RayMissedLoadedInstance ==
    /\ Did("intersectRay")
    /\ last.time = FInf
    /\ Inst(last.inst).iModel # NoModel

ReadCountShort ==
    /\ rd.called
    /\ rd.first = 1
    /\ rd.check # (IF HasFlagLE(spawn.flags, MOD_HAS_BOUND) THEN 17 ELSE 11)

\* the bytes of a record up to and including its name length
HeaderBytes(has_bound) == IF has_bound THEN 66 ELSE 42

\* the fields of the two records agree, the bound block only under the flag
SameRecord(a, b) ==
    /\ a.flags = b.flags
    /\ a.adtId = b.adtId
    /\ a.ID = b.ID
    /\ a.iPos = b.iPos
    /\ a.iRot = b.iRot
    /\ a.iScale = b.iScale
    /\ HasFlagLE(b.flags, MOD_HAS_BOUND) => a.iBound = b.iBound
    /\ a.name = b.name

\* C1: a readFromFile that starts where writeToFile reported a record
\* written, on a device that reads without error, succeeds, yields every
\* field of that record, and stops exactly at the end of the record's bytes.
RecordRoundTrips ==
    (rd.called /\ rd.written # 0 /\ ~rd.ferr) =>
        /\ rd.ret
        /\ SameRecord(spawn, wrote[rd.written].rec)
        /\ rpos = wrote[rd.written].end

\* C5 as stated: a readFromFile that counts too few items after its first
\* returns failure and leaves every field of the caller's record as it was.
TruncatedReadLeavesRecord ==
    ReadCountShort => ~rd.ret /\ spawn = rd.pre

\* C5 as amended: a readFromFile that counts too few items after its first
\* returns failure with an error diagnostic, reads no name byte and does not
\* assign the record's name; the flags, read in full, have been overwritten
\* with the four bytes of the stream at the start of the record.
TruncatedReadFails ==
    ReadCountShort =>
        /\ ~rd.ret
        /\ rd.log = "error"
        /\ rd.nameReq = -1
        /\ spawn.name = rd.pre.name
        /\ spawn.flags = SubSeq(file, rd.start + 1, rd.start + 4)

\* a truncated record was refused after fields of the caller's record,
\* other than the name, had been overwritten with bytes of a written record
TruncatedReadOverwrote ==
    /\ ReadCountShort
    /\ ~rd.ferr
    /\ ~rd.ret
    /\ spawn.flags # rd.pre.flags
    /\ spawn.iPos # rd.pre.iPos
    /\ spawn.name = rd.pre.name
    /\ rpos = Len(file)

\* C7: a first read of zero items makes readFromFile return failure with an
\* error diagnostic only if the stream reports an I/O error; any short read
\* after the first item, of the fixed fields or of the name bytes, makes it
\* return failure with an error diagnostic.
EndOfStreamOrCorruption ==
    rd.called =>
        /\ rd.first = 0 => ~rd.ret /\ (rd.log = "error" <=> rd.ferr)
        /\ ReadCountShort => ~rd.ret /\ rd.log = "error"
        /\ (rd.nameReq # -1 /\ rd.nameGot # rd.nameReq) =>
               ~rd.ret /\ rd.log = "error"
        /\ rd.ret => rd.log = "none"

\* the stream ended cleanly after the records written to it: failure, no
\* error diagnostic
CleanEndOfStream ==
    /\ rd.called
    /\ rd.first = 0
    /\ ~rd.ferr
    /\ ~rd.ret
    /\ rd.log = "none"
    /\ Len(wrote) > 0
    /\ rd.start = wrote[Len(wrote)].end
    /\ rd.start = Len(file)

\* C8: with the fixed fields read in full, a declared name length above 500
\* makes readFromFile return failure with the stream left right after the
\* name length and the record's name as it was; a declared length of at most
\* 500 makes it ask the stream for exactly that many bytes, and on success
\* the name is those bytes and the stream is right after them.
OversizedNameRejected ==
    (rd.called /\ rd.first = 1 /\ ~ReadCountShort) =>
        LET nameStart == rd.start + HeaderBytes(HasFlagLE(spawn.flags, MOD_HAS_BOUND))
        IN  IF rd.nameLen[4] # 0 \/ U32Small(rd.nameLen) > 500
            THEN /\ ~rd.ret
                 /\ rd.nameReq = -1
                 /\ rpos = nameStart
                 /\ spawn.name = rd.pre.name
            ELSE /\ rd.nameReq = U32Small(rd.nameLen)
                 /\ rd.ret <=> rd.nameGot = rd.nameReq
                 /\ rpos = nameStart + rd.nameGot
                 /\ rd.ret => spawn.name = SubSeq(file, nameStart + 1,
                                                  nameStart + rd.nameReq)

\* a record declaring a name of 501 bytes was refused with no name byte read
NameOf501Refused ==
    /\ rd.called
    /\ rd.first = 1
    /\ ~ReadCountShort
    /\ U32Small(rd.nameLen) = 501
    /\ ~rd.ret
    /\ rpos + 501 <= Len(file)
    /\ spawn.name = rd.pre.name

=============================================================================
